---- MODULE Spec2Model ----
(***************************************************************************)
(* Model of the crawl orchestrator of xiuer-spider (src/action_main.py):   *)
(* search_and_process_notes with its helpers send_webhook and              *)
(* convert_note_to_xhs_format.  Python dicts are TLA+ records whose DOMAIN *)
(* is the set of keys present; Python None is the string "None".  Chinese  *)
(* text fragments of the source are written as ASCII tokens, and a string  *)
(* built by an f-string is the tuple of its parts.                         *)
(***************************************************************************)
EXTENDS Integers, Sequences, FiniteSets, TLC

VARIABLES num, webhook_url, get_comments, no_delay, upstream, nowHour,
          pc, i, notes, processed_notes, all_comments, errors,
          events, posts, waits, calls, result, clock,
          arg, out, detailed_notes, save_to_file

vars == <<num, webhook_url, get_comments, no_delay, upstream, nowHour,
          pc, i, notes, processed_notes, all_comments, errors,
          events, posts, waits, calls, result, clock,
          arg, out, detailed_notes, save_to_file>>

\* State used only by the normalizer and pacing functions applied on their
\* own (arg, out) and by the local detail run of src/test_local.py.
aux == <<arg, out, detailed_notes, save_to_file>>

inputs == <<num, webhook_url, get_comments, no_delay, upstream, nowHour>>

\* ---------------------------------------------------------------- bounds
MaxItems == 2
MaxNum == 2

\* ------------------------------------------------------- small utilities
None == "None"

Min(a, b) == IF a <= b THEN a ELSE b

Take(s, n) == SubSeq(s, 1, Min(n, Len(s)))

Get(d, k) == IF k \in DOMAIN d THEN d[k] ELSE None

Ok(v) == [ok |-> TRUE, val |-> v]

Raise(e) == [ok |-> FALSE, exc |-> e]

\* int(s) on the strings the upstream is modelled to send: decimal strings
\* convert, anything else raises ValueError.
IntValue ==
    [s \in {"0", "2", "5", "01", "02", "13", "15", "30", "45"} |->
        CASE s = "0" -> 0 [] s = "2" -> 2 [] s = "5" -> 5 [] s = "01" -> 1
          [] s = "02" -> 2 [] s = "13" -> 13 [] s = "15" -> 15 [] s = "30" -> 30
          [] s = "45" -> 45]

ParseInt(s) == IF s \in DOMAIN IntValue THEN Ok(IntValue[s]) ELSE Raise("ValueError")

\* Truthiness of the string-or-None values used here.
Truthy(v) == v # None /\ v # ""

\* ------------------------------------------------------------ raw items
\* The minute of the wall clock during the run (fixed; the hour varies).
NowMinute == 30

\* Raw search items.  time_text is the text of the publish_time corner tag
\* as a tuple of tokens: <<"2", "hours_ago">> stands for "2小时前".
NoteA == [model_type |-> "note", id |-> "a", xsec_token |-> "ta",
          liked_count |-> "5"]

NoteB == [model_type |-> "note", id |-> "b", xsec_token |-> "tb",
          time_text |-> <<"2", "hours_ago">>]

AdItem == [model_type |-> "ad", id |-> "x", xsec_token |-> "tx"]

NoTypeItem == [id |-> "y", xsec_token |-> "ty"]

NoIdNote == [model_type |-> "note", xsec_token |-> "tz"]

BadCountNote == [model_type |-> "note", id |-> "c", xsec_token |-> "tc",
                 liked_count |-> "1.2w"]

RawItems == {NoteA, NoteB, AdItem, NoTypeItem, NoIdNote, BadCountNote}

\* An item the spec calls well-formed: every field present and of a shape
\* the normalizer's rules recognise.
WellFormed(note) == note \in {NoteA, NoteB}

\* ----------------------------------------------------------- normalizers
\* parse_interact_info, one metric: int(v) if v else 0
ParseCount(interact_info, k) ==
    IF Truthy(Get(interact_info, k)) THEN ParseInt(interact_info[k]) ELSE Ok(0)

\* The upload-time part of convert_note_to_xhs_format.  The result is the
\* hour and minute of the same day as <<hour, minute>>, or NoTime for None.
NoTime == <<>>

Contains(text, tok) == \E j \in 1..Len(text) : text[j] = tok

Without(text, tok) == SelectSeq(text, LAMBDA t : t # tok)

IntOfText(text) == IF Len(text) = 1 THEN ParseInt(text[1]) ELSE Raise("ValueError")

\* len(time_text): the number of characters of the tokens.
RECURSIVE TextLen(_)

TextLen(text) ==
    IF text = <<>> THEN 0
    ELSE (IF Head(text) \in {"01", "02", "13", "15", "30", "45"} THEN 2
          ELSE IF Head(text) \in {"hours_ago", "minutes_ago"} THEN 3
          ELSE 1) + TextLen(Tail(text))

DaysIn(month) ==
    IF month = 2 THEN 28 ELSE IF month \in {4, 6, 9, 11} THEN 30 ELSE 31

\* Lines 155-160: month, day = time_text.split("-") and
\* datetime(current_year, int(month), int(day)), any exception swallowed.
\* The date is written <<month, day, 0, 0>> (midnight of that day).
ParseMonthDay(text) ==
    IF Len(text) = 3 /\ text[2] = "-"
    THEN LET month == ParseInt(text[1])
             day == ParseInt(text[3])
         IN  IF month.ok /\ day.ok /\ month.val \in 1..12
                /\ day.val \in 1..DaysIn(month.val)
             THEN <<month.val, day.val, 0, 0>>
             ELSE NoTime
    ELSE NoTime

ParseUploadTime(note, hourNow) ==
    IF "time_text" \notin DOMAIN note THEN Ok(NoTime)
    ELSE LET time_text == note.time_text IN
         IF Contains(time_text, "hours_ago")
         THEN LET hours == IntOfText(Without(time_text, "hours_ago")) IN
              IF ~hours.ok THEN hours
              ELSE IF hourNow - hours.val \in 0..23
                   THEN Ok(<<hourNow - hours.val, NowMinute>>)
                   ELSE Raise("ValueError")
         ELSE IF Contains(time_text, "minutes_ago")
         THEN LET minutes == IntOfText(Without(time_text, "minutes_ago")) IN
              IF ~minutes.ok THEN minutes
              ELSE IF NowMinute - minutes.val \in 0..59
                   THEN Ok(<<hourNow, NowMinute - minutes.val>>)
                   ELSE Raise("ValueError")
         ELSE IF Contains(time_text, "-") /\ TextLen(time_text) = 5
         THEN Ok(ParseMonthDay(time_text))
         ELSE Ok(NoTime)

\* parse_interact_info: the four counts, each int(v) if v else 0; the last
\* one is read from shared_count.  A failing int() raises out of the function.
parse_interact_info(interact_info) ==
    LET liked == ParseCount(interact_info, "liked_count")
        collected == ParseCount(interact_info, "collected_count")
        comment == ParseCount(interact_info, "comment_count")
        share == ParseCount(interact_info, "shared_count")
    IN  IF ~liked.ok THEN liked
        ELSE IF ~collected.ok THEN collected
        ELSE IF ~comment.ok THEN comment
        ELSE IF ~share.ok THEN share
        ELSE Ok([liked_count |-> liked.val, collected_count |-> collected.val,
                 comment_count |-> comment.val, share_count |-> share.val])

\* convert_note_to_xhs_format: the canonical record, or the exception the
\* function raises.  The interaction sub-object is flattened into the item.
convert_note_to_xhs_format(note, hourNow) ==
    LET upload_time == ParseUploadTime(note, hourNow)
        liked == ParseCount(note, "liked_count")
    IN  IF ~upload_time.ok THEN upload_time
        ELSE IF "id" \notin DOMAIN note THEN Raise("KeyError")
        ELSE IF "xsec_token" \notin DOMAIN note THEN Raise("KeyError")
        ELSE IF ~liked.ok THEN liked
        ELSE Ok([note_id |-> note.id,
                 upload_time |-> upload_time.val,
                 liked_count |-> liked.val,
                 xsec_token |-> note.xsec_token])

\* datetime.fromtimestamp(comment['create_time']) inside try/except: an
\* epoch number gives an instant (written <<epoch>>), anything else None.
EpochValues == {"1700", "1800"}

ParseEpoch(comment) ==
    IF "create_time" \in DOMAIN comment /\ comment.create_time \in EpochValues
    THEN <<comment.create_time>>
    ELSE NoTime

\* The comment record stamped with the id found in the raw comment.
convert_comment_own_note_id(comment, note_id) ==
    LET like == IF "like_count" \in DOMAIN comment
                THEN ParseInt(comment.like_count) ELSE Ok(0)
    IN  IF ~like.ok THEN like
        ELSE Ok([comment_id |-> Get(comment, "id"),
                 note_id |-> Get(comment, "note_id"),
                 like_count |-> like.val,
                 upload_time |-> ParseEpoch(comment)])

\* convert_comment_to_xhs_format: like_count is int(comment.get("like_count", 0))
convert_comment_to_xhs_format(comment, note_id) ==
    LET like == IF "like_count" \in DOMAIN comment
                THEN ParseInt(comment.like_count) ELSE Ok(0)
    IN  IF ~like.ok THEN like
        ELSE Ok([comment_id |-> Get(comment, "id"),
                 note_id |-> note_id,
                 like_count |-> like.val,
                 upload_time |-> ParseEpoch(comment)])

\* ------------------------------------------------------------- upstream
SearchOutcomes == {"ok", "fail", "raise"}

CommentOutcomes == {"ok", "fail", "raise"}

DeliveryOutcomes == {"ok", "fail"}

WebhookUrls == {None, "none", "http"}

NowHours == {1, 12}

\* The comments the upstream returns for a note when the fetch succeeds.
RawComments == << [id |-> "c1", like_count |-> "2", create_time |-> "1700"] >>

SearchMsg == "search_msg"

CommentMsg == "comment_msg"

\* ------------------------------------------------------------- delivery
\* send_webhook: skipped (returns True) without a URL or with the URL
\* "none"; otherwise one POST whose failure is caught and returned as False.
send_webhook(url, outcome) ==
    IF ~Truthy(url) \/ url = "none"
    THEN [val |-> TRUE, posted |-> FALSE]
    ELSE [val |-> (outcome = "ok"), posted |-> TRUE]

\* The effect of one send_webhook call on the event and POST logs.
Posts(sw, outcome) ==
    IF sw.posted THEN Append(posts, [event |-> Len(events) + 1, outcome |-> outcome])
    ELSE posts

\* ------------------------------------------------------------- payloads
StartedEvent ==
    [status |-> "started", message |-> <<"start_search">>, progress |-> 0,
     data |-> [total_found |-> 0, notes |-> <<>>]]

\* Lines 276-287
SearchFailedEvent(error_msg, elapsed) ==
    [status |-> "error", message |-> error_msg, elapsed_time |-> elapsed,
     data |-> [total_found |-> 0, notes |-> <<>>]]

EmptyEvent(elapsed) ==
    [status |-> "completed", message |-> <<"search_ok_no_result">>,
     elapsed_time |-> elapsed,
     data |-> [total_found |-> 0, notes |-> <<>>]]

\* Progress as the share of the work still to do (a variant of line 342).
ProgressRemaining(idx, total) == ((total - idx) * 50) \div total

\* Line 342: int((i / min(num, len(notes))) * 50)
Progress(idx, total) == (idx * 50) \div total

ProgressEvent(idx, total, found, done) ==
    [status |-> "progress", message |-> <<"processing", ToString(idx), ToString(total)>>,
     progress |-> Progress(idx, total),
     data |-> [total_found |-> found, notes |-> done]]

\* The top-level payload with the status of the search-failure payload.
FailedEventAsError(error_msg, elapsed) ==
    [status |-> "error", message |-> error_msg, elapsed_time |-> elapsed,
     data |-> [total_found |-> 0, notes |-> <<>>],
     errors |-> <<error_msg>>]

\* Lines 496-508
FailedEvent(error_msg, elapsed) ==
    [status |-> "failed", message |-> error_msg, elapsed_time |-> elapsed,
     data |-> [total_found |-> 0, notes |-> <<>>],
     errors |-> <<error_msg>>]

\* Line 438: sum([c['count'] for c in all_comments.values() if c['success']])
RECURSIVE SumCounts(_, _)

SumCounts(cmts, keys) ==
    IF keys = {} THEN 0
    ELSE LET k == CHOOSE x \in keys : TRUE IN
         (IF cmts[k].success THEN cmts[k].count ELSE 0) + SumCounts(cmts, keys \ {k})

\* The final payload with the status fixed to success.
FinalEventAlwaysSuccess(elapsed, found, done, errs, withComments, cmts) ==
    LET base == [status |-> "success",
                 message |-> <<"processed", ToString(Len(done)), ToString(Len(errs))>>,
                 elapsed_time |-> elapsed,
                 progress |-> 100,
                 data |-> [total_found |-> found, notes |-> done]]
    IN  IF errs # <<>> THEN base @@ [errors |-> errs] ELSE base

FinalEvent(elapsed, found, done, errs, withComments, cmts) ==
    LET data == [total_found |-> found, notes |-> done]
        stats == [total_notes_with_comments |->
                      Cardinality({k \in DOMAIN cmts : cmts[k].success}),
                  total_comments_count |-> SumCounts(cmts, DOMAIN cmts),
                  failed_comments |->
                      Cardinality({k \in DOMAIN cmts : ~cmts[k].success})]
        base == [status |-> IF errs = <<>> THEN "success" ELSE "completed",
                 message |-> <<"processed", ToString(Len(done)), ToString(Len(errs))>>,
                 elapsed_time |-> elapsed,
                 progress |-> 100,
                 data |-> IF withComments
                          THEN data @@ [comments |-> cmts, comment_stats |-> stats]
                          ELSE data]
    IN  IF errs # <<>> THEN base @@ [errors |-> errs] ELSE base

\* ----------------------------------------------------------------- state
NoResult == [returned |-> FALSE]

Return(success, msg, list) ==
    [returned |-> TRUE, success |-> success, message |-> msg, notes |-> list]

Filtered(items) == SelectSeq(items, LAMBDA x : x.model_type = "note")

\* Upstream responses are part of the run's input.  Responses the run can
\* never read are fixed, so that equal runs are one initial state.
Init ==
    /\ num \in 1..MaxNum
    /\ webhook_url \in WebhookUrls
    /\ get_comments \in BOOLEAN
    /\ no_delay \in BOOLEAN
    /\ nowHour \in NowHours
    /\ \E outcome \in SearchOutcomes, n \in 0..MaxItems :
         \E items \in [1..n -> RawItems], cmt \in [1..MaxItems -> CommentOutcomes] :
            /\ outcome # "ok" => n = 0
            /\ \A k \in 1..MaxItems :
                  (~get_comments \/ k > n) => cmt[k] = "ok"
            /\ upstream = [search |-> outcome, items |-> items, comments |-> cmt]
    /\ pc = "start"
    /\ i = 1
    /\ notes = <<>>
    /\ processed_notes = <<>>
    /\ all_comments = <<>>
    /\ errors = <<>>
    /\ events = <<>>
    /\ posts = <<>>
    /\ waits = <<>>
    /\ calls = <<>>
    /\ result = NoResult
    /\ clock = 0
    /\ arg = [kind |-> "none"]
    /\ out = <<>>
    /\ detailed_notes = <<>>
    /\ save_to_file = FALSE

Elapsed == clock + 1

\* ------------------------------------------------------------- the run
\* Lines 233-254: the started event.
Started ==
    /\ pc = "start"
    /\ \E d \in DeliveryOutcomes :
         LET sw == send_webhook(webhook_url, d) IN
         IF Truthy(webhook_url)
         THEN /\ events' = Append(events, StartedEvent)
              /\ posts' = Posts(sw, d)
         ELSE UNCHANGED <<events, posts>>
    /\ pc' = "search"
    /\ clock' = clock + 1
    /\ UNCHANGED <<inputs, aux, i, notes, processed_notes, all_comments, errors,
                   waits, calls, result>>

\* Lines 489-513: the top-level handler.
TopLevelFailure(exc) ==
    LET error_msg == <<"search_process_error", exc>> IN
    /\ \E d \in DeliveryOutcomes :
         LET sw == send_webhook(webhook_url, d) IN
         IF Truthy(webhook_url)
         THEN /\ events' = Append(events, FailedEvent(error_msg, Elapsed))
              /\ posts' = Posts(sw, d)
         ELSE UNCHANGED <<events, posts>>
    /\ result' = Return(FALSE, error_msg, <<>>)
    /\ pc' = "done"
    /\ clock' = clock + 1

\* Line 259 raising: the search call itself throws.
SearchRaised ==
    /\ pc = "search"
    /\ upstream.search = "raise"
    /\ calls' = Append(calls, <<"search">>)
    /\ TopLevelFailure("search_exception")
    /\ UNCHANGED <<inputs, aux, i, notes, processed_notes, all_comments, errors, waits>>

\* Lines 272-294: the search reports failure.
SearchFailed ==
    /\ pc = "search"
    /\ upstream.search = "fail"
    /\ calls' = Append(calls, <<"search">>)
    /\ LET error_msg == <<"search_failed", SearchMsg>> IN
       /\ \E d \in DeliveryOutcomes :
            LET sw == send_webhook(webhook_url, d) IN
            IF Truthy(webhook_url)
            THEN /\ events' = Append(events, SearchFailedEvent(error_msg, Elapsed))
                 /\ posts' = Posts(sw, d)
            ELSE UNCHANGED <<events, posts>>
       /\ result' = Return(FALSE, error_msg, <<>>)
    /\ pc' = "done"
    /\ clock' = clock + 1
    /\ UNCHANGED <<inputs, aux, i, notes, processed_notes, all_comments, errors, waits>>

\* Line 297 raising: an item without model_type makes the filter throw.
FilterRaised ==
    /\ pc = "search"
    /\ upstream.search = "ok"
    /\ \E k \in 1..Len(upstream.items) : "model_type" \notin DOMAIN upstream.items[k]
    /\ calls' = Append(calls, <<"search">>)
    /\ TopLevelFailure("KeyError")
    /\ UNCHANGED <<inputs, aux, i, notes, processed_notes, all_comments, errors, waits>>

\* Lines 300-322: nothing left after the filter.
SearchEmpty ==
    /\ pc = "search"
    /\ upstream.search = "ok"
    /\ \A k \in 1..Len(upstream.items) : "model_type" \in DOMAIN upstream.items[k]
    /\ Filtered(upstream.items) = <<>>
    /\ calls' = Append(calls, <<"search">>)
    /\ \E d \in DeliveryOutcomes :
         LET sw == send_webhook(webhook_url, d) IN
         IF Truthy(webhook_url)
         THEN /\ events' = Append(events, EmptyEvent(Elapsed))
              /\ posts' = Posts(sw, d)
         ELSE UNCHANGED <<events, posts>>
    /\ result' = Return(TRUE, <<"search_ok_no_result">>, <<>>)
    /\ pc' = "done"
    /\ clock' = clock + 1
    /\ UNCHANGED <<inputs, aux, i, notes, processed_notes, all_comments, errors, waits>>

\* Lines 296-327: at least one note; enter the loop.
SearchFound ==
    /\ pc = "search"
    /\ upstream.search = "ok"
    /\ \A k \in 1..Len(upstream.items) : "model_type" \in DOMAIN upstream.items[k]
    /\ Filtered(upstream.items) # <<>>
    /\ calls' = Append(calls, <<"search">>)
    /\ notes' = Filtered(upstream.items)
    /\ i' = 1
    /\ pc' = "loop"
    /\ clock' = clock + 1
    /\ UNCHANGED <<inputs, aux, processed_notes, all_comments, errors, events, posts,
                   waits, result>>

\* Lines 366-415: the comment sub-phase of one iteration, given the
\* upstream's response for that note.  Yields the new comment map and
\* error list; every failure is absorbed here.
CommentPhase(note, response, cmts, errs) ==
    LET key == Get(note, "id") IN
    IF response = "ok"
    THEN LET formatted == [k \in 1..Len(RawComments) |->
                              convert_comment_to_xhs_format(RawComments[k], key)]
         IN  IF \A k \in 1..Len(RawComments) : formatted[k].ok
             THEN [comments |-> (key :> [success |-> TRUE,
                                          count |-> Len(RawComments),
                                          comments |-> [k \in 1..Len(RawComments) |->
                                                           formatted[k].val]])
                                @@ cmts,
                   errors |-> errs]
             ELSE [comments |-> (key :> [success |-> FALSE,
                                          error |-> <<"comment_exception", "ValueError">>,
                                          count |-> 0, comments |-> <<>>]) @@ cmts,
                   errors |-> Append(errs, <<"comment_exception", "ValueError">>)]
    ELSE IF response = "fail"
    THEN [comments |-> (key :> [success |-> FALSE, error |-> <<CommentMsg>>,
                                 count |-> 0, comments |-> <<>>]) @@ cmts,
          errors |-> Append(errs, <<"note", key, "comment_failed", CommentMsg>>)]
    ELSE [comments |-> (key :> [success |-> FALSE,
                                 error |-> <<"comment_exception", "fetch_exception">>,
                                 count |-> 0, comments |-> <<>>]) @@ cmts,
          errors |-> Append(errs, <<"comment_exception", "fetch_exception">>)]

\* A pacing rule that also waits before the first item.
ItemWaitEveryItem(noDelay, idx) ==
    IF ~noDelay THEN <<[kind |-> "item", index |-> idx]>> ELSE <<>>

\* Lines 332-337: the blocking inter-item wait, as the list of waits made.
ItemWait(noDelay, idx) ==
    IF ~noDelay /\ idx > 1 THEN <<[kind |-> "item", index |-> idx]>> ELSE <<>>

\* Lines 370-371: the blocking wait before a comment fetch.
CommentWait(noDelay, idx) ==
    IF ~noDelay THEN <<[kind |-> "comment", index |-> idx]>> ELSE <<>>

\* Lines 329-422: one iteration of the loop over notes[:num].
ProcessNote ==
    /\ pc = "loop"
    /\ i <= Min(num, Len(notes))
    /\ LET note == notes[i]
           total == Min(num, Len(notes))
           converted == convert_note_to_xhs_format(note, nowHour)
           itemWait == ItemWait(no_delay, i)
       IN
       /\ \E d \in DeliveryOutcomes :
            LET sw == send_webhook(webhook_url, d) IN
            IF Truthy(webhook_url)
            THEN /\ events' = Append(events,
                                     ProgressEvent(i, total, Len(notes), processed_notes))
                 /\ posts' = Posts(sw, d)
            ELSE UNCHANGED <<events, posts>>
       /\ IF ~converted.ok
          THEN /\ errors' = Append(errors, <<"process_note_failed",
                                             IF "id" \in DOMAIN note THEN note.id ELSE "unknown",
                                             converted.exc>>)
               /\ waits' = waits \o itemWait
               /\ UNCHANGED <<processed_notes, all_comments, calls>>
          ELSE /\ processed_notes' = Append(processed_notes, converted.val)
               /\ IF get_comments
                  THEN LET after == CommentPhase(note, upstream.comments[i],
                                                 all_comments, errors)
                       IN  /\ waits' = waits \o itemWait \o CommentWait(no_delay, i)
                           /\ calls' = Append(calls, <<"comments", Get(note, "id"),
                                                       Get(note, "xsec_token")>>)
                           /\ all_comments' = after.comments
                           /\ errors' = after.errors
                  ELSE /\ waits' = waits \o itemWait
                       /\ UNCHANGED <<all_comments, errors, calls>>
    /\ i' = i + 1
    /\ clock' = clock + 1
    /\ UNCHANGED <<inputs, aux, pc, notes, result>>

\* The return value made to depend on the delivery of the final event.
FinalReturnOnDelivery(webhook_success, done) ==
    IF webhook_success THEN Return(TRUE, <<"ok">>, done)
    ELSE Return(FALSE, <<"webhook_failed">>, <<>>)

\* Line 487: the value returned after the final event; the delivery
\* result is only logged.
FinalReturn(webhook_success, done) == Return(TRUE, <<"ok">>, done)

\* Lines 424-487: aggregation, the final event and the return.
Finalize ==
    /\ pc = "loop"
    /\ i > Min(num, Len(notes))
    /\ \E d \in DeliveryOutcomes :
         LET sw == send_webhook(webhook_url, d) IN
         /\ IF Truthy(webhook_url)
            THEN /\ events' = Append(events,
                                     FinalEvent(Elapsed, Len(notes), processed_notes,
                                                errors, get_comments, all_comments))
                 /\ posts' = Posts(sw, d)
            ELSE UNCHANGED <<events, posts>>
         /\ result' = FinalReturn(sw.val, processed_notes)
    /\ pc' = "done"
    /\ clock' = clock + 1
    /\ UNCHANGED <<inputs, aux, i, notes, processed_notes, all_comments, errors,
                   waits, calls>>

Next ==
    \/ Started
    \/ SearchRaised
    \/ SearchFailed
    \/ FilterRaised
    \/ SearchEmpty
    \/ SearchFound
    \/ ProcessNote
    \/ Finalize

Spec == Init /\ [][Next]_vars

\* ============================================================== claims
Reporting == Truthy(webhook_url)

Done == pc = "done"

LastEvent == events[Len(events)]

Statuses == {"started", "progress", "completed", "success", "failed"}

TerminalStatuses == {"completed", "success", "failed"}

\* The items the loop visits, and what the normalizer makes of each.
Visited == Take(notes, num)

Converted(k) == convert_note_to_xhs_format(Visited[k], nowHour)

ReachedFinal == Done /\ notes # <<>>

\* C1: with reporting enabled the events of a run are STARTED (progress 0),
\* then PROGRESS events, then exactly one terminal event with status
\* completed, success or failed, nothing after it, and no status outside
\* the closed set.
C1_LifecycleShape ==
    Reporting =>
      /\ \A j \in 1..Len(events) :
            /\ events[j].status \in Statuses
            /\ (j = 1) <=> (events[j].status = "started")
            /\ events[j].status \in TerminalStatuses => j = Len(events) /\ Done
      /\ Len(events) >= 1 =>
            "progress" \in DOMAIN events[1] /\ events[1].progress = 0
      /\ pc # "start" => Len(events) >= 1
      /\ Done => Len(events) >= 2 /\ LastEvent.status \in TerminalStatuses

\* C2: the progress values carried by the events of one run are integers
\* in 0..100 and never decrease along the run.
C2_ProgressMonotone ==
    /\ \A j \in 1..Len(events) :
          "progress" \in DOMAIN events[j] => events[j].progress \in 0..100
    /\ \A j, k \in 1..Len(events) :
          (j < k /\ "progress" \in DOMAIN events[j] /\ "progress" \in DOMAIN events[k])
             => events[j].progress <= events[k].progress

C2_Witness ==
    /\ Done
    /\ \E j, k \in 1..Len(events) :
          /\ j < k
          /\ events[j].status = "progress" /\ events[k].status = "progress"
          /\ 0 < events[j].progress /\ events[j].progress < events[k].progress
    /\ LastEvent.status \in {"success", "completed"}
    /\ LastEvent.progress = 100

\* C3: a search that reports failure yields one failed event with the
\* failure message and the elapsed time, a failure result with no notes,
\* no normalization and no comment fetch; comment failures never make the
\* run return failure.
C3_SearchFailure ==
    /\ (Done /\ upstream.search = "fail") =>
          /\ result = Return(FALSE, <<"search_failed", SearchMsg>>, <<>>)
          /\ processed_notes = <<>>
          /\ calls = << <<"search">> >>
          /\ Reporting =>
                /\ Len(events) = 2
                /\ LastEvent.status = "failed"
                /\ LastEvent.message = <<"search_failed", SearchMsg>>
                /\ "elapsed_time" \in DOMAIN LastEvent
    /\ (Done /\ ~result.success) =>
          \/ upstream.search # "ok"
          \/ \E k \in 1..Len(upstream.items) :
                "model_type" \notin DOMAIN upstream.items[k]

\* C4: a successful search with no item classified as a note ends with an
\* event of status completed, progress 100 and no notes, and a successful
\* empty result.
C4_EmptyResult ==
    (/\ Done
     /\ upstream.search = "ok"
     /\ \A k \in 1..Len(upstream.items) : "model_type" \in DOMAIN upstream.items[k]
     /\ Filtered(upstream.items) = <<>>) =>
        /\ result.success /\ result.notes = <<>>
        /\ Reporting =>
              /\ LastEvent.status = "completed"
              /\ LastEvent.data.notes = <<>>
              /\ "progress" \in DOMAIN LastEvent
              /\ LastEvent.progress = 100

\* The loop positions whose comment fetch was issued and did not succeed.
FailedFetches ==
    {a \in 1..Len(Visited) : Converted(a).ok /\ upstream.comments[a] # "ok"}

CommentErrors ==
    SelectSeq(errors, LAMBDA e : e[1] \in {"note", "comment_exception"})

\* C5: a failed comment fetch for note A leaves A in the notes list with
\* zero comments, lets every later note B be normalized, fetched and
\* listed, and adds exactly one error entry, which identifies A.
C5_CommentFailureIsolated ==
    (ReachedFinal /\ get_comments) =>
       /\ Len(CommentErrors) = Cardinality(FailedFetches)
       /\ \A a \in FailedFetches :
             /\ \E j \in 1..Len(processed_notes) :
                   processed_notes[j].note_id = Visited[a].id
             /\ Visited[a].id \in DOMAIN all_comments
             /\ (\A b \in (a + 1)..Len(Visited) : Get(Visited[b], "id") # Visited[a].id)
                   => /\ all_comments[Visited[a].id].count = 0
                      /\ all_comments[Visited[a].id].comments = <<>>
             /\ \A b \in (a + 1)..Len(Visited) :
                   Converted(b).ok =>
                      /\ \E j \in 1..Len(processed_notes) :
                            processed_notes[j] = Converted(b).val
                      /\ \E j \in 1..Len(calls) :
                            calls[j] = <<"comments", Visited[b].id, Visited[b].xsec_token>>
             /\ \E j \in 1..Len(errors) : Contains(errors[j], Visited[a].id)

\* C6: after a successful search with at least one note the final event
\* has progress 100, status success exactly when no error was collected
\* and completed otherwise, an errors field exactly when errors were
\* collected (listing them all in order), and the run returns success.
C6_FinalStatus ==
    ReachedFinal =>
       /\ result.success
       /\ Reporting =>
             /\ LastEvent.progress = 100
             /\ LastEvent.status = IF errors = <<>> THEN "success" ELSE "completed"
             /\ ("errors" \in DOMAIN LastEvent) <=> (errors # <<>>)
             /\ "errors" \in DOMAIN LastEvent => LastEvent.errors = errors

C6_Witness ==
    /\ ReachedFinal
    /\ Reporting
    /\ errors # <<>>
    /\ LastEvent.status = "completed"
    /\ LastEvent.errors = errors
    /\ Len(processed_notes) >= 1

TopLevelFault ==
    \/ upstream.search = "raise"
    \/ /\ upstream.search = "ok"
       /\ \E k \in 1..Len(upstream.items) :
             "model_type" \notin DOMAIN upstream.items[k]

FaultName == IF upstream.search = "raise" THEN "search_exception" ELSE "KeyError"

\* C7: no fault leaves the orchestrator: the run always goes on to return,
\* and an exception no inner handler takes ends it with a failed event
\* carrying the exception message and the elapsed time and with a failure
\* result.
C7_NoFaultEscapes ==
    /\ ~Done => ENABLED Next
    /\ Done => result.returned
    /\ (Done /\ TopLevelFault) =>
          /\ result = Return(FALSE, <<"search_process_error", FaultName>>, <<>>)
          /\ Reporting =>
                /\ LastEvent.status = "failed"
                /\ LastEvent.message = <<"search_process_error", FaultName>>
                /\ "elapsed_time" \in DOMAIN LastEvent
                /\ LastEvent.elapsed_time = clock

C7_Witness ==
    /\ Done
    /\ Reporting
    /\ upstream.search = "ok"
    /\ TopLevelFault
    /\ LastEvent.status = "failed"
    /\ ~result.success

\* C8: each of the first min(requested_count, available) items yields a
\* record even when malformed, and normalization adds no error entry.
C8_NormalizationDegrades ==
    ReachedFinal =>
       /\ Len(processed_notes) = Min(num, Len(notes))
       /\ \A j \in 1..Len(errors) : errors[j][1] # "process_note_failed"

\* C9: k >= 1 well-formed notes, requested_count n, no comments: the final
\* event is success with progress 100, no errors field and the records of
\* the first min(n, k) items in search order.
C9_WellFormedRun ==
    (/\ Done
     /\ upstream.search = "ok"
     /\ Len(upstream.items) >= 1
     /\ \A k \in 1..Len(upstream.items) : WellFormed(upstream.items[k])
     /\ ~get_comments
     /\ Reporting) =>
        /\ LastEvent.status = "success"
        /\ LastEvent.progress = 100
        /\ "errors" \notin DOMAIN LastEvent
        /\ Len(LastEvent.data.notes) = Min(num, Len(upstream.items))
        /\ \A k \in 1..Len(LastEvent.data.notes) :
              LastEvent.data.notes[k].note_id = upstream.items[k].id

\* What a run must return and which upstream calls it must make, computed
\* from the inputs and the upstream responses alone.
RECURSIVE ExpectedNotes(_), ExpectedFetches(_)

ExpectedVisited == Take(Filtered(upstream.items), num)

ExpectedNotes(k) ==
    IF k = 0 THEN <<>>
    ELSE LET c == convert_note_to_xhs_format(ExpectedVisited[k], nowHour) IN
         IF c.ok THEN Append(ExpectedNotes(k - 1), c.val) ELSE ExpectedNotes(k - 1)

ExpectedFetches(k) ==
    IF k = 0 THEN <<>>
    ELSE LET c == convert_note_to_xhs_format(ExpectedVisited[k], nowHour) IN
         IF c.ok /\ get_comments
         THEN Append(ExpectedFetches(k - 1),
                     <<"comments", ExpectedVisited[k].id, ExpectedVisited[k].xsec_token>>)
         ELSE ExpectedFetches(k - 1)

ExpectedResult ==
    IF upstream.search = "fail"
    THEN Return(FALSE, <<"search_failed", SearchMsg>>, <<>>)
    ELSE IF TopLevelFault
    THEN Return(FALSE, <<"search_process_error", FaultName>>, <<>>)
    ELSE IF ExpectedVisited = <<>>
    THEN Return(TRUE, <<"search_ok_no_result">>, <<>>)
    ELSE Return(TRUE, <<"ok">>, ExpectedNotes(Len(ExpectedVisited)))

ExpectedCalls ==
    IF upstream.search # "ok" \/ TopLevelFault THEN << <<"search">> >>
    ELSE << <<"search">> >> \o ExpectedFetches(Len(ExpectedVisited))

\* C10: the returned success flag, message and note list and the sequence
\* of upstream calls are determined by the inputs and upstream responses,
\* whatever the deliveries do and whether or not reporting is enabled, and
\* every event is posted to the sink at most once.
C10_DeliveryIndependent ==
    /\ Done => result = ExpectedResult /\ calls = ExpectedCalls
    /\ \A j \in 1..Len(posts) : posts[j].event \in 1..Len(events)
    /\ \A j, k \in 1..Len(posts) : j < k => posts[j].event < posts[k].event

C10_Witness ==
    /\ Done
    /\ webhook_url = "http"
    /\ Len(posts) = Len(events)
    /\ posts[Len(posts)].outcome = "fail"
    /\ \E j \in 1..Len(posts) : posts[j].outcome = "ok"
    /\ result.success
    /\ result.notes # <<>>
    /\ Len(calls) >= 2

\* The progress events of the run so far, in order.
ProgressEvents == SelectSeq(events, LAMBDA e : e.status = "progress")

\* C11: the i-th PROGRESS event is emitted after item i was normalized and
\* appended: it carries progress floor(i / m * 50) and a notes list that
\* includes the record of item i.
C11_ProgressAfterAppend ==
    \A k \in 1..Len(ProgressEvents) :
       /\ ProgressEvents[k].progress = (k * 50) \div Min(num, Len(notes))
       /\ Converted(k).ok =>
             /\ Len(ProgressEvents[k].data.notes) >= 1
             /\ ProgressEvents[k].data.notes[Len(ProgressEvents[k].data.notes)]
                   = Converted(k).val

\* C12: an inter-item wait precedes item i only when pacing is enabled and
\* i > 1, and a run with pacing disabled makes no wait of any kind.
C12_Pacing ==
    /\ \A w \in 1..Len(waits) :
          /\ ~no_delay
          /\ waits[w].kind = "item" => waits[w].index > 1
    /\ no_delay => waits = <<>>

C12_Witness ==
    /\ Done
    /\ ~no_delay
    /\ get_comments
    /\ i = 3
    /\ \E w \in 1..Len(waits) : waits[w] = [kind |-> "item", index |-> 2]
    /\ \E w \in 1..Len(waits) : waits[w] = [kind |-> "comment", index |-> 1]
    /\ waits[1].kind = "comment"

\* C13: every comment record carries the id of a note already processed in
\* the run, every key of the comments map is the id of a processed note,
\* and a comment fetch is made only for a note already normalized.
C13_CommentsReferenceNotes ==
    /\ \A key \in DOMAIN all_comments :
          /\ \E j \in 1..Len(processed_notes) : processed_notes[j].note_id = key
          /\ \A c \in 1..Len(all_comments[key].comments) :
                all_comments[key].comments[c].note_id = key
    /\ \A c \in 1..Len(calls) :
          calls[c][1] = "comments" =>
             \E j \in 1..Len(processed_notes) : processed_notes[j].note_id = calls[c][2]

C13_Witness ==
    /\ Done
    /\ get_comments
    /\ \E key \in DOMAIN all_comments :
          /\ all_comments[key].success
          /\ all_comments[key].count >= 1
          /\ all_comments[key].comments[1].note_id = key
    /\ \E key \in DOMAIN all_comments : ~all_comments[key].success

\* C14: the accumulated note list never holds two records with the same
\* note_id, whatever the search returned.
C14_UniqueNoteIds ==
    \A j, k \in 1..Len(processed_notes) :
       j # k => processed_notes[j].note_id # processed_notes[k].note_id

\* ================================================ functions on their own
\* The normalizers and the pacing function are applied to inputs drawn from
\* bounded sets; out collects what each application returned.
MaxIndex == 15

\* Seconds are counted in tenths, multipliers in tenths, so a delay is a
\* number of thousandths of a second.
Draws(lo, hi) == {lo, (lo + hi) \div 2, hi}

\* The index rule with the tests for 3 and 5 exchanged.
IndexBandThreeFirst(index) ==
    IF index = 1 THEN <<5, 8>>
    ELSE IF index % 3 = 0 THEN <<12, 18>>
    ELSE IF index % 5 = 0 THEN <<15, 25>>
    ELSE <<10, 10>>

\* Lines 42-51 of random_delay: the band of the index multiplier.
IndexBand(index) ==
    IF index = 1 THEN <<5, 8>>
    ELSE IF index % 5 = 0 THEN <<15, 25>>
    ELSE IF index % 3 = 0 THEN <<12, 18>>
    ELSE <<10, 10>>

\* random_delay: every value the function can return for its arguments;
\* a is a record with min_seconds, max_seconds and, unless None, note_index.
random_delay(a) ==
    LET band == IF "note_index" \in DOMAIN a THEN IndexBand(a.note_index)
                ELSE <<10, 10>>
    IN  {base * mult * long :
            base \in Draws(a.min_seconds, a.max_seconds),
            mult \in Draws(band[1], band[2]),
            long \in {10} \cup Draws(20, 40)}

TimeTexts ==
    { <<"2", "hours_ago">>, <<"0", "hours_ago">>, <<"x", "hours_ago">>,
      <<"5", "minutes_ago">>, <<"45", "minutes_ago">>,
      <<"01", "-", "15">>, <<"13", "-", "01">>, <<"02", "-", "30">>,
      <<"2", "-", "5">>, <<"x">> }

FnHours == {0, 1, 12, 23}

NoteArgs ==
    {NoteA, NoIdNote, BadCountNote} \cup
    {[model_type |-> "note", id |-> "b", xsec_token |-> "tb", time_text |-> t] :
        t \in TimeTexts}

CountKeys == {"liked_count", "collected_count", "comment_count", "shared_count"}

CountValues == {None, "", "0", "5", "1.2w"}

InteractArgs == UNION {[K -> CountValues] : K \in SUBSET CountKeys}

\* Raw comments: like_count and create_time are each absent or one of the
\* listed values.
Optional(key, values) == {<<>>} \cup {key :> v : v \in values}

CommentArgs ==
    {[id |-> c] @@ like @@ time :
        c \in {"c1", "c2"},
        like \in Optional("like_count", {None, "", "0", "5", "1.2w"}),
        time \in Optional("create_time", {None, "1700", "1800", "bad"})}

Seconds == {0, 5, 10, 15, 35}

Ranges == {r \in Seconds \X Seconds : r[1] <= r[2]}

DelayArgs ==
    {[min_seconds |-> r[1], max_seconds |-> r[2]] : r \in Ranges}
    \cup
    {[min_seconds |-> r[1], max_seconds |-> r[2], note_index |-> k] :
        r \in Ranges, k \in 1..MaxIndex}

InitFn ==
    /\ num = 1
    /\ webhook_url = None
    /\ get_comments = FALSE
    /\ no_delay = FALSE
    /\ upstream = [search |-> "ok", items |-> <<>>, comments |-> <<>>]
    /\ nowHour \in FnHours
    /\ pc = "fn"
    /\ i = 1
    /\ notes = <<>>
    /\ processed_notes = <<>>
    /\ all_comments = <<>>
    /\ errors = <<>>
    /\ events = <<>>
    /\ posts = <<>>
    /\ waits = <<>>
    /\ calls = <<>>
    /\ result = NoResult
    /\ clock = 0
    /\ \/ arg \in {[kind |-> "note", item |-> n] : n \in NoteArgs}
       \/ /\ nowHour = 12
          /\ \/ arg \in {[kind |-> "interact", info |-> f] : f \in InteractArgs}
             \/ arg \in {[kind |-> "comment", comment |-> c] : c \in CommentArgs}
             \/ arg \in {[kind |-> "delay", args |-> a] : a \in DelayArgs}
    /\ out = <<>>
    /\ detailed_notes = <<>>
    /\ save_to_file = FALSE

FnUnchanged ==
    UNCHANGED <<num, webhook_url, get_comments, no_delay, upstream, pc, i, notes,
                processed_notes, all_comments, errors, events, posts, waits,
                calls, result, arg, detailed_notes, save_to_file>>

\* convert_note_to_xhs_format applied to the item at the current hour.
ApplyNote ==
    /\ pc = "fn"
    /\ arg.kind = "note"
    /\ Len(out) < 2
    /\ out' = Append(out, [hour |-> nowHour,
                           res |-> convert_note_to_xhs_format(arg.item, nowHour)])
    /\ UNCHANGED <<nowHour, clock>>
    /\ FnUnchanged

\* An hour of wall-clock time passes between two applications.
Tick ==
    /\ pc = "fn"
    /\ arg.kind = "note"
    /\ Len(out) = 1
    /\ clock = 0
    /\ nowHour < 23
    /\ nowHour' = nowHour + 1
    /\ clock' = 1
    /\ UNCHANGED out
    /\ FnUnchanged

ApplyInteract ==
    /\ pc = "fn"
    /\ arg.kind = "interact"
    /\ out = <<>>
    /\ out' = <<[res |-> parse_interact_info(arg.info)]>>
    /\ UNCHANGED <<nowHour, clock>>
    /\ FnUnchanged

ApplyComment ==
    /\ pc = "fn"
    /\ arg.kind = "comment"
    /\ out = <<>>
    /\ out' = <<[res |-> convert_comment_to_xhs_format(arg.comment, "a")]>>
    /\ UNCHANGED <<nowHour, clock>>
    /\ FnUnchanged

ApplyDelay ==
    /\ pc = "fn"
    /\ arg.kind = "delay"
    /\ out = <<>>
    /\ \E delay \in random_delay(arg.args) : out' = <<[res |-> delay]>>
    /\ UNCHANGED <<nowHour, clock>>
    /\ FnUnchanged

NextFn ==
    \/ ApplyNote
    \/ Tick
    \/ ApplyInteract
    \/ ApplyComment
    \/ ApplyDelay

SpecFn == InitFn /\ [][NextFn]_vars

NoteOutputs == {k \in 1..Len(out) : arg.kind = "note"}

IsNumber(v) == v \in DOMAIN IntValue

\* C15: '<N>hours ago' gives T minus N hours and '<N>minutes ago' T minus N
\* minutes for every T and N, 'MM-DD' that day of the current year, and any
\* other tag or an unparsable number gives no upload time, without raising.
C15_UploadTime ==
    \A k \in NoteOutputs :
       ("time_text" \in DOMAIN arg.item /\ arg.item.id = "b") =>
          LET t == arg.item.time_text
              h == out[k].hour
              r == out[k].res
          IN  /\ r.ok
              /\ IF Len(t) = 2 /\ t[2] = "hours_ago" /\ IsNumber(t[1])
                 THEN IF h - IntValue[t[1]] >= 0
                      THEN r.val.upload_time = <<h - IntValue[t[1]], NowMinute>>
                      ELSE r.val.upload_time # NoTime
                 ELSE IF Len(t) = 2 /\ t[2] = "minutes_ago" /\ IsNumber(t[1])
                 THEN IF NowMinute - IntValue[t[1]] >= 0
                      THEN r.val.upload_time = <<h, NowMinute - IntValue[t[1]]>>
                      ELSE r.val.upload_time # NoTime
                 ELSE IF t = <<"01", "-", "15">>
                 THEN r.val.upload_time = <<1, 15, 0, 0>>
                 ELSE r.val.upload_time = NoTime

ExpectedCount(info, key) ==
    IF key \in DOMAIN info /\ IsNumber(info[key]) THEN IntValue[info[key]] ELSE 0

\* C16: each of the four interaction counts is an integer, 0 when the
\* field is missing, falsy or non-numeric and the field's value otherwise,
\* and computing them never raises.
C16_CountsNeverNull ==
    (arg.kind = "interact" /\ out # <<>>) =>
       /\ out[1].res.ok
       /\ out[1].res.val.liked_count = ExpectedCount(arg.info, "liked_count")
       /\ out[1].res.val.collected_count = ExpectedCount(arg.info, "collected_count")
       /\ out[1].res.val.comment_count = ExpectedCount(arg.info, "comment_count")
       /\ out[1].res.val.share_count = ExpectedCount(arg.info, "shared_count")

\* C17: two applications of the note normalizer to the same raw item give
\* identical records, whatever happens between them.
C17_Deterministic ==
    (arg.kind = "note" /\ Len(out) = 2) => out[1].res = out[2].res

\* The band the first matching index rule selects, in tenths.
BandLow(a) ==
    IF "note_index" \notin DOMAIN a THEN 10
    ELSE IF a.note_index = 1 THEN 5
    ELSE IF a.note_index % 5 = 0 THEN 15
    ELSE IF a.note_index % 3 = 0 THEN 12
    ELSE 10

BandHigh(a) ==
    IF "note_index" \notin DOMAIN a THEN 10
    ELSE IF a.note_index = 1 THEN 8
    ELSE IF a.note_index % 5 = 0 THEN 25
    ELSE IF a.note_index % 3 = 0 THEN 18
    ELSE 10

DelayMade == arg.kind = "delay" /\ out # <<>>

\* C18 as stated: the delay is never negative and always lies in the band
\* of the first matching index rule, so delay(3, ...) is between 1.2*min and
\* 1.8*max and an index divisible by 3 and 5 takes the long-pause band.
C18_DelayInBand ==
    (DelayMade /\ "note_index" \in DOMAIN arg.args) =>
       /\ out[1].res >= 0
       /\ BandLow(arg.args) * arg.args.min_seconds * 10 <= out[1].res
       /\ out[1].res <= BandHigh(arg.args) * arg.args.max_seconds * 10

\* C18 amended: the delay is never negative and lies in the band of the
\* first matching index rule, or in that band scaled by the independent
\* long pause of 2.0 to 4.0.
C18_DelayInBandOrLongPause ==
    DelayMade =>
       /\ out[1].res >= 0
       /\ \/ /\ BandLow(arg.args) * arg.args.min_seconds * 10 <= out[1].res
             /\ out[1].res <= BandHigh(arg.args) * arg.args.max_seconds * 10
          \/ /\ BandLow(arg.args) * arg.args.min_seconds * 20 <= out[1].res
             /\ out[1].res <= BandHigh(arg.args) * arg.args.max_seconds * 40

C18_Witness ==
    /\ DelayMade
    /\ "note_index" \in DOMAIN arg.args
    /\ arg.args.note_index = 15
    /\ arg.args.min_seconds = 10
    /\ arg.args.max_seconds = 35
    /\ out[1].res = 10 * 15 * 20

\* C19: the comment normalizer returns a record for every raw comment and
\* never raises: like_count is 0 when missing, null or non-numeric, and
\* upload_time is null when the epoch field is absent or unparsable.
C19_CommentNeverRaises ==
    (arg.kind = "comment" /\ out # <<>>) =>
       /\ out[1].res.ok
       /\ out[1].res.val.like_count = ExpectedCount(arg.comment, "like_count")
       /\ out[1].res.val.upload_time =
             IF "create_time" \in DOMAIN arg.comment
                /\ arg.comment.create_time \in EpochValues
             THEN <<arg.comment.create_time>> ELSE NoTime

\* ==================================================== local detail run
\* search_and_save_local of src/test_local.py.  upstream.details[k] is the
\* response of get_note_info for the k-th visited item: "ok" (a payload
\* with data.items), "fail" (success False or an empty payload),
\* "no_items" (no data.items in the payload), "empty_items" (data.items is
\* empty, so items[0] raises) or "raise".  upstream.save is the outcome of
\* writing the result file.
DetailOutcomes == {"ok", "fail", "no_items", "empty_items", "raise"}

SaveOutcomes == {"ok", "raise"}

LocalItems == {NoteA, NoteB, AdItem, NoTypeItem, NoIdNote}

InitLocal ==
    /\ num \in 1..MaxNum
    /\ save_to_file \in BOOLEAN
    /\ \E outcome \in SearchOutcomes, n \in 0..MaxItems, save \in SaveOutcomes :
         \E items \in [1..n -> LocalItems], det \in [1..MaxItems -> DetailOutcomes] :
            /\ outcome # "ok" => n = 0
            /\ \A k \in 1..MaxItems : k > n => det[k] = "ok"
            /\ ~save_to_file => save = "ok"
            /\ upstream = [search |-> outcome, items |-> items, details |-> det,
                           save |-> save]
    /\ webhook_url = None
    /\ get_comments = FALSE
    /\ no_delay = TRUE
    /\ nowHour = 12
    /\ pc = "local_search"
    /\ i = 1
    /\ notes = <<>>
    /\ processed_notes = <<>>
    /\ all_comments = <<>>
    /\ errors = <<>>
    /\ events = <<>>
    /\ posts = <<>>
    /\ waits = <<>>
    /\ calls = <<>>
    /\ result = NoResult
    /\ clock = 0
    /\ arg = [kind |-> "none"]
    /\ out = <<>>
    /\ detailed_notes = <<>>

LocalUnchanged ==
    UNCHANGED <<num, webhook_url, get_comments, no_delay, upstream, nowHour,
                processed_notes, all_comments, errors, events, posts, waits,
                clock, arg, out, save_to_file>>

\* Lines 149-152: the top-level handler of the local run.
LocalTopLevelFailure(exc) ==
    /\ result' = Return(FALSE, <<"search_process_error", exc>>, <<>>)
    /\ pc' = "done"

\* Line 33 raising.
LocalSearchRaised ==
    /\ pc = "local_search"
    /\ upstream.search = "raise"
    /\ calls' = Append(calls, <<"search">>)
    /\ LocalTopLevelFailure("search_exception")
    /\ UNCHANGED <<i, notes, detailed_notes>>
    /\ LocalUnchanged

\* Lines 46-48: the search reports failure.
LocalSearchFailed ==
    /\ pc = "local_search"
    /\ upstream.search = "fail"
    /\ calls' = Append(calls, <<"search">>)
    /\ result' = Return(FALSE, <<SearchMsg>>, <<>>)
    /\ pc' = "done"
    /\ UNCHANGED <<i, notes, detailed_notes>>
    /\ LocalUnchanged

\* Line 51 raising: an item without model_type.
LocalFilterRaised ==
    /\ pc = "local_search"
    /\ upstream.search = "ok"
    /\ \E k \in 1..Len(upstream.items) : "model_type" \notin DOMAIN upstream.items[k]
    /\ calls' = Append(calls, <<"search">>)
    /\ LocalTopLevelFailure("KeyError")
    /\ UNCHANGED <<i, notes, detailed_notes>>
    /\ LocalUnchanged

\* Lines 54-56: nothing left after the filter.
LocalSearchEmpty ==
    /\ pc = "local_search"
    /\ upstream.search = "ok"
    /\ \A k \in 1..Len(upstream.items) : "model_type" \in DOMAIN upstream.items[k]
    /\ Filtered(upstream.items) = <<>>
    /\ calls' = Append(calls, <<"search">>)
    /\ result' = Return(TRUE, <<"search_ok_no_result">>, <<>>)
    /\ pc' = "done"
    /\ UNCHANGED <<i, notes, detailed_notes>>
    /\ LocalUnchanged

\* Lines 50-69: at least one note; enter the detail loop.
LocalSearchFound ==
    /\ pc = "local_search"
    /\ upstream.search = "ok"
    /\ \A k \in 1..Len(upstream.items) : "model_type" \in DOMAIN upstream.items[k]
    /\ Filtered(upstream.items) # <<>>
    /\ calls' = Append(calls, <<"search">>)
    /\ notes' = Filtered(upstream.items)
    /\ i' = 1
    /\ pc' = "local_loop"
    /\ UNCHANGED <<detailed_notes, result>>
    /\ LocalUnchanged

\* Lines 84-87: the detail record of a fetched note.
Detail(note) == [note_id |-> note.id, url |-> <<note.id, note.xsec_token>>]

\* A loop body that also keeps the payload without data.items.
DetailPhaseKeepsMalformed(note, response, done) ==
    IF response \in {"ok", "no_items"} THEN Append(done, Detail(note)) ELSE done

\* Lines 78-103: what one detail response adds to detailed_notes; every
\* failure, malformed payload and exception leaves the list as it is.
DetailPhase(note, response, done) ==
    IF response = "ok" THEN Append(done, Detail(note)) ELSE done

\* Lines 71-103: one iteration of the detail loop.
FetchDetail ==
    /\ pc = "local_loop"
    /\ i <= Min(num, Len(notes))
    /\ LET note == notes[i] IN
       IF "id" \notin DOMAIN note \/ "xsec_token" \notin DOMAIN note
       THEN UNCHANGED <<calls, detailed_notes>>
       ELSE /\ calls' = Append(calls, <<"detail", note.id, note.xsec_token>>)
            /\ detailed_notes' = DetailPhase(note, upstream.details[i], detailed_notes)
    /\ i' = i + 1
    /\ UNCHANGED <<pc, notes, result>>
    /\ LocalUnchanged

\* Lines 105-147: the result file and the return; a failing write goes to
\* the top-level handler.
LocalFinish ==
    /\ pc = "local_loop"
    /\ i > Min(num, Len(notes))
    /\ IF save_to_file /\ upstream.save = "raise"
       THEN LocalTopLevelFailure("OSError")
       ELSE /\ result' = Return(TRUE, <<"ok">>, detailed_notes)
            /\ pc' = "done"
    /\ UNCHANGED <<i, notes, calls, detailed_notes>>
    /\ LocalUnchanged

NextLocal ==
    \/ LocalSearchRaised
    \/ LocalSearchFailed
    \/ LocalFilterRaised
    \/ LocalSearchEmpty
    \/ LocalSearchFound
    \/ FetchDetail
    \/ LocalFinish

SpecLocal == InitLocal /\ [][NextLocal]_vars

\* The detail fetches and detail records the first k visited items call for.
RECURSIVE WantedFetches(_), WantedDetails(_)

WantedFetches(k) ==
    IF k = 0 THEN <<>>
    ELSE IF "id" \in DOMAIN Visited[k]
         THEN Append(WantedFetches(k - 1),
                     <<"detail", Visited[k].id, Visited[k].xsec_token>>)
         ELSE WantedFetches(k - 1)

WantedDetails(k) ==
    IF k = 0 THEN <<>>
    ELSE IF "id" \in DOMAIN Visited[k] /\ upstream.details[k] = "ok"
         THEN Append(WantedDetails(k - 1),
                     [note_id |-> Visited[k].id,
                      url |-> <<Visited[k].id, Visited[k].xsec_token>>])
         ELSE WantedDetails(k - 1)

LocalLoopDone == Done /\ notes # <<>>

\* C20 as stated: a failing, malformed or raising detail fetch is isolated;
\* every item among the first min(num, available) is still fetched, the
\* run returns success with exactly the well-formed details in search
\* order, and only a failed search makes the run return failure.
C20_DetailIsolated ==
    /\ LocalLoopDone =>
          /\ calls = << <<"search">> >> \o WantedFetches(Len(Visited))
          /\ result = Return(TRUE, <<"ok">>, WantedDetails(Len(Visited)))
    /\ (Done /\ ~result.success) => (upstream.search = "fail" \/ TopLevelFault)

\* C20 amended: as above, but a result file that cannot be written makes
\* the run return failure with an empty list.
C20_DetailIsolatedUnlessSaveFails ==
    /\ LocalLoopDone =>
          /\ calls = << <<"search">> >> \o WantedFetches(Len(Visited))
          /\ detailed_notes = WantedDetails(Len(Visited))
          /\ result = IF save_to_file /\ upstream.save = "raise"
                      THEN Return(FALSE, <<"search_process_error", "OSError">>, <<>>)
                      ELSE Return(TRUE, <<"ok">>, detailed_notes)
    /\ (Done /\ ~result.success) =>
          \/ upstream.search = "fail"
          \/ TopLevelFault
          \/ save_to_file /\ upstream.save = "raise"

C20_Witness ==
    /\ LocalLoopDone
    /\ Len(Visited) = 2
    /\ upstream.details[1] \in {"fail", "no_items", "empty_items", "raise"}
    /\ upstream.details[2] = "ok"
    /\ Len(calls) = 3
    /\ result.success
    /\ Len(result.notes) = 1
    /\ result.notes[1].note_id = Visited[2].id

\* The number of comment records held in a comments map.
RECURSIVE RecordsHeld(_, _)

RecordsHeld(cmts, keys) ==
    IF keys = {} THEN 0
    ELSE LET k == CHOOSE x \in keys : TRUE IN
         Len(cmts[k].comments) + RecordsHeld(cmts, keys \ {k})

\* C21: with comment retrieval requested the aggregates of the final
\* payload agree with its lists: total_notes_with_comments plus
\* failed_comments is the number of notes, total_comments_count is the
\* number of comment records in the comments map, and every failed entry
\* has count 0 and no comments.
C21_AggregatesConsistent ==
    (ReachedFinal /\ get_comments /\ Reporting) =>
       LET data == LastEvent.data
           stats == data.comment_stats
       IN  /\ stats.total_notes_with_comments + stats.failed_comments
                 = Len(data.notes)
           /\ stats.total_comments_count
                 = RecordsHeld(data.comments, DOMAIN data.comments)
           /\ \A k \in DOMAIN data.comments :
                 ~data.comments[k].success =>
                    data.comments[k].count = 0 /\ data.comments[k].comments = <<>>

\* The same statement for runs in which the visited items have distinct ids.
C21_DistinctIdsOnly ==
    (\A j, k \in 1..Len(processed_notes) :
        j # k => processed_notes[j].note_id # processed_notes[k].note_id)
       => C21_AggregatesConsistent

====
